---------------------------- MODULE Spec2Model ----------------------------
(***************************************************************************)
(* Model of scripts/sync_keymap_outputs.py: the token resolver, the layer  *)
(* renderer, the two region patchers and the sync orchestrator (main).     *)
(*                                                                         *)
(* Text (a Python str) is a sequence of one-character strings.             *)
(***************************************************************************)
EXTENDS Integers, Sequences, FiniteSets, TLC

VARIABLES
    pc,     \* where the run (or the function under check) stands
    inp,    \* the arguments of the function under check
    out,    \* its results
    args,   \* main: the command line, [write, skip_rake]
    fs,     \* main: the files, [json, keymap, dtsi]
    mem,    \* main: its local variables and the exit status
    hist    \* main: the patch calls made and the writes of the target file

vars == <<pc, inp, out, args, fs, mem, hist>>

(***************************************************************************)
(* Bounds of the model.                                                    *)
(***************************************************************************)
\* Nesting depth of the parameter trees below a key.
MaxDepth == 2
\* Key lists have 80 - MaxLenDelta .. 80 + MaxLenDelta keys (and 0 keys).
MaxLenDelta == 1

(***************************************************************************)
(* Text helpers.                                                           *)
(***************************************************************************)
NL == "\n"
TAB == "\t"
\* Characters str.split() and the pattern's \s treat as whitespace.
WS == {" ", NL, TAB}

RECURSIVE JoinWith(_, _)
\* sep.join(parts), halving the list to keep the recursion shallow.
JoinWith(sep, parts) ==
    IF parts = <<>> THEN <<>>
    ELSE IF Len(parts) = 1 THEN parts[1]
    ELSE LET h == Len(parts) \div 2
         IN  JoinWith(sep, SubSeq(parts, 1, h)) \o sep
                 \o JoinWith(sep, SubSeq(parts, h + 1, Len(parts)))

\* "".join(parts)
Concat(parts) == JoinWith(<<>>, parts)

\* s[i:j] of Python for 0 <= i, with the end clamped to len(s).
Slice(s, i, j) ==
    LET hi == IF j > Len(s) THEN Len(s) ELSE j
    IN  IF i >= hi THEN <<>> ELSE SubSeq(s, i + 1, hi)

\* Whether lit occurs in s at the 1-based index i.
MatchAt(lit, s, i) ==
    /\ i >= 1
    /\ i + Len(lit) - 1 <= Len(s)
    /\ \A k \in 1..Len(lit) : s[i + k - 1] = lit[k]

\* The indices of s that hold the character c (where a literal that starts
\* with c may match).
Places(s, c) == {i \in 1..Len(s) : s[i] = c}

\* The number of (possibly overlapping) occurrences of lit in s.
CountOcc(lit, s) == Cardinality({i \in 1..Len(s) : MatchAt(lit, s, i)})

Digit(d) == <<"0", "1", "2", "3", "4", "5", "6", "7", "8", "9">>[d + 1]

RECURSIVE NatStr(_)
\* str(n) for an int n >= 0.
NatStr(n) == IF n < 10 THEN <<Digit(n)>> ELSE NatStr(n \div 10) \o <<Digit(n % 10)>>

(***************************************************************************)
(* JSON values of keymap.json, as json.loads returns them.                 *)
(***************************************************************************)
JNull == [t |-> "null"]
\* A key the dict does not hold (dict.get falls back to its default).
JAbsent == [t |-> "absent"]
JStr(s) == [t |-> "str", s |-> s]
JNum(n) == [t |-> "num", n |-> n]
\* A dict with "value" and "params"; params is the list `get("params") or []`.
JDict(value, params) == [t |-> "dict", value |-> value, params |-> params]

\* str(x) of a scalar JSON value.
PyStr(x) ==
    CASE x.t = "str" -> x.s
      [] x.t = "num" -> IF x.n < 0 THEN <<"-">> \o NatStr(-x.n) ELSE NatStr(x.n)
      [] x.t = "null" -> <<"N", "o", "n", "e">>
      [] OTHER -> <<>>

\* node.get("value", "") turned to str.
GetValueStr(node) ==
    IF node.value = JAbsent THEN <<>> ELSE PyStr(node.value)

\* Optional[str]
NoneStr == [some |-> FALSE, s |-> <<>>]
Some(s) == [some |-> TRUE, s |-> s]
\* Python truthiness of an Optional[str].
Truthy(o) == o.some /\ o.s # <<>>

KP == <<"&", "k", "p">>
CUSTOM == <<"C", "u", "s", "t", "o", "m">>

(***************************************************************************)
(* Token Resolver.                                                         *)
(***************************************************************************)
RECURSIVE resolve_nested_nokp(_)
\* _resolve_nested without the "&kp" rule.
resolve_nested_nokp(node) ==
    IF node.t = "null" THEN NoneStr
    ELSE IF node.t # "dict" THEN Some(PyStr(node))
    ELSE LET value == GetValueStr(node)
             child == IF node.params # <<>>
                      THEN resolve_nested_nokp(node.params[1]) ELSE NoneStr
         IN  IF Truthy(child) THEN Some(value \o <<"(">> \o child.s \o <<")">>)
             ELSE Some(value)

RECURSIVE resolve_nested(_)
resolve_nested(node) ==
    IF node.t = "null" THEN NoneStr
    ELSE IF node.t # "dict" THEN Some(PyStr(node))
    ELSE LET value == GetValueStr(node)
             child == IF node.params # <<>>
                      THEN resolve_nested(node.params[1]) ELSE NoneStr
         IN  IF value = KP THEN child
             ELSE IF Truthy(child) THEN Some(value \o <<"(">> \o child.s \o <<")">>)
             ELSE Some(value)

key_to_token(key) ==
    LET behavior == GetValueStr(key)
        params == key.params
    IN  IF params = <<>> THEN behavior
        ELSE LET first == params[1]
             IN  IF behavior = CUSTOM
                 THEN IF first.t = "dict" THEN GetValueStr(first) ELSE PyStr(first)
                 ELSE LET nested == resolve_nested(first)
                      IN  IF behavior = KP
                          THEN IF Truthy(nested) THEN KP \o <<" ">> \o nested.s ELSE KP
                          ELSE IF Truthy(nested)
                               THEN behavior \o <<" ">> \o nested.s ELSE behavior

(***************************************************************************)
(* Layer Renderer.                                                         *)
(***************************************************************************)
ROW_WIDTHS == <<10, 12, 12, 12, 18, 16>>

RECURSIVE SumSeq(_)
SumSeq(s) == IF s = <<>> THEN 0 ELSE Head(s) + SumSeq(Tail(s))

\* The 12 spaces each row starts with.
INDENT == <<" ", " ", " ", " ", " ", " ", " ", " ", " ", " ", " ", " ">>

ShapeError == [ok |-> FALSE, text |-> <<>>]

RECURSIVE RenderRows(_, _, _)
\* The loop of render_bindings: out after the rows of `widths`, starting at i.
RenderRows(tokens, widths, i) ==
    IF widths = <<>> THEN <<>>
    ELSE LET width == Head(widths)
             row == JoinWith(<<" ">>, Slice(tokens, i, i + width))
         IN  <<INDENT \o row>> \o RenderRows(tokens, Tail(widths), i + width)

RECURSIVE RenderRowsStuck(_, _, _)
\* The loop of render_bindings with `i += width` left out.
RenderRowsStuck(tokens, widths, i) ==
    IF widths = <<>> THEN <<>>
    ELSE LET width == Head(widths)
             row == JoinWith(<<" ">>, Slice(tokens, i, i + width))
         IN  <<INDENT \o row>> \o RenderRowsStuck(tokens, Tail(widths), i)

\* render_bindings with the loop not advancing.
render_bindings_stuck(keys) ==
    LET tokens == [k \in 1..Len(keys) |-> key_to_token(keys[k])]
    IN  IF Len(tokens) # SumSeq(ROW_WIDTHS) THEN ShapeError
        ELSE [ok |-> TRUE,
              text |-> JoinWith(<<NL>>, RenderRowsStuck(tokens, ROW_WIDTHS, 0))]

render_bindings(keys) ==
    LET tokens == [k \in 1..Len(keys) |-> key_to_token(keys[k])]
    IN  IF Len(tokens) # SumSeq(ROW_WIDTHS) THEN ShapeError
        ELSE [ok |-> TRUE, text |-> JoinWith(<<NL>>, RenderRows(tokens, ROW_WIDTHS, 0))]

(***************************************************************************)
(* Region Patcher: the pattern matcher.                                    *)
(***************************************************************************)
RECURSIVE SkipWs(_, _)
\* Where a greedy \s* that starts at i ends (the next index).
SkipWs(s, i) == IF i <= Len(s) /\ s[i] \in WS THEN SkipWs(s, i + 1) ELSE i

RECURSIVE MatchLits(_, _, _)
\* `\s*lit` for each lit of lits in turn, from i: the next index, 0 for no match.
\* No lit starts with whitespace, so the greedy \s* never has to give back.
MatchLits(s, i, lits) ==
    IF lits = <<>> THEN i
    ELSE LET j == SkipWs(s, i)
         IN  IF MatchAt(Head(lits), s, j)
             THEN MatchLits(s, j + Len(Head(lits)), Tail(lits))
             ELSE 0

SetMin(S) == CHOOSE x \in S : \A y \in S : x <= y

LAYER_ == <<"l", "a", "y", "e", "r", "_">>
BINDINGS == <<"b", "i", "n", "d", "i", "n", "g", "s">>

\* Group 1, layer_<name>\s*\{\s*bindings\s*=\s*<\n, at i: the next index or 0.
OpenEnd(s, layer_name, i) ==
    IF MatchAt(LAYER_ \o layer_name, s, i)
    THEN MatchLits(s, i + Len(LAYER_) + Len(layer_name),
                   <<(<<"{">>), BINDINGS, (<<"=">>), (<<"<", NL>>)>>)
    ELSE 0

\* Group 3, \n\s*>;\n\s*\};, at p: the next index or 0.
CloseEnd(s, p) ==
    IF p <= Len(s) /\ s[p] = NL
    THEN MatchLits(s, p + 1, <<(<<">", ";", NL>>), (<<"}", ";">>)>>)
    ELSE 0

\* The non-greedy body: the first index >= from where group 3 matches, or 0.
FirstClose(s, from) ==
    LET ps == {p \in Places(s, NL) : p >= from /\ CloseEnd(s, p) # 0}
    IN  IF ps = {} THEN 0 ELSE SetMin(ps)

NoMatch == [found |-> FALSE, start |-> 0, body |-> 0, close |-> 0, end |-> 0]

\* pattern.search with the pattern built for one fixed layer, whatever
\* layer_name is.
LayerSearchFixed(s, layer_name) ==
    LET starts == {i \in Places(s, "l") :
                      /\ OpenEnd(s, <<"b", "a", "s", "e">>, i) # 0
                      /\ FirstClose(s, OpenEnd(s, <<"b", "a", "s", "e">>, i)) # 0}
    IN  IF starts = {} THEN NoMatch
        ELSE LET i == SetMin(starts)
                 b == OpenEnd(s, <<"b", "a", "s", "e">>, i)
                 c == FirstClose(s, b)
             IN  [found |-> TRUE, start |-> i, body |-> b, close |-> c,
                  end |-> CloseEnd(s, c)]

\* pattern.search: the leftmost start with a match; the match has group 1 =
\* s[start, body), group 2 = s[body, close), group 3 = s[close, end).
LayerSearch(s, layer_name) ==
    LET starts == {i \in Places(s, "l") :
                      /\ OpenEnd(s, layer_name, i) # 0
                      /\ FirstClose(s, OpenEnd(s, layer_name, i)) # 0}
    IN  IF starts = {} THEN NoMatch
        ELSE LET i == SetMin(starts)
                 b == OpenEnd(s, layer_name, i)
                 c == FirstClose(s, b)
             IN  [found |-> TRUE, start |-> i, body |-> b, close |-> c,
                  end |-> CloseEnd(s, c)]

RECURSIVE SkipWord(_, _)
SkipWord(s, i) == IF i <= Len(s) /\ s[i] \notin WS THEN SkipWord(s, i + 1) ELSE i

RECURSIVE SplitRange(_, _, _)
\* s[lo-1:hi].split() for a range that cuts no word: the first word, then the
\* words of the two halves of the rest (cut at a word's end).
SplitRange(s, lo, hi) ==
    LET a == SkipWs(s, lo)
    IN  IF a > hi THEN <<>>
        ELSE LET b == SkipWord(s, a)
                 m == SkipWord(s, (b + hi) \div 2)
             IN  IF b > hi THEN <<SubSeq(s, a, hi)>>
                 ELSE <<SubSeq(s, a, b - 1)>> \o SplitRange(s, b, m - 1)
                          \o SplitRange(s, m, hi)

\* s.split()
Split(s) == SplitRange(s, 1, Len(s))

\* " ".join(s.split())
Normalize(s) == JoinWith(<<" ">>, Split(s))

(***************************************************************************)
(* Region Patcher: the per-layer region.                                   *)
(***************************************************************************)
LayerResult(err, text, count, changed) ==
    [err |-> err, text |-> text, count |-> count, changed |-> changed]

\* sync_layer_bindings comparing the raw texts.
sync_layer_bindings_raw(config_text, layer_name, keys) ==
    LET block == render_bindings(keys)
        match == LayerSearch(config_text, layer_name)
    IN  IF ~block.ok THEN LayerResult("ValueError", config_text, 0, FALSE)
        ELSE IF ~match.found THEN LayerResult("none", config_text, 0, FALSE)
        ELSE LET old_block == SubSeq(config_text, match.body, match.close - 1)
             IN  IF old_block = block.text
                 THEN LayerResult("none", config_text, 1, FALSE)
                 ELSE LayerResult("none",
                                  SubSeq(config_text, 1, match.body - 1)
                                      \o block.text
                                      \o SubSeq(config_text, match.close, Len(config_text)),
                                  1, TRUE)

\* sync_layer_bindings comparing the normalized old block with the new block
\* as rendered.
sync_layer_bindings_halfnorm(config_text, layer_name, keys) ==
    LET block == render_bindings(keys)
        match == LayerSearch(config_text, layer_name)
    IN  IF ~block.ok THEN LayerResult("ValueError", config_text, 0, FALSE)
        ELSE IF ~match.found THEN LayerResult("none", config_text, 0, FALSE)
        ELSE LET old_block == SubSeq(config_text, match.body, match.close - 1)
             IN  IF Normalize(old_block) = block.text
                 THEN LayerResult("none", config_text, 1, FALSE)
                 ELSE LayerResult("none",
                                  SubSeq(config_text, 1, match.body - 1)
                                      \o block.text
                                      \o SubSeq(config_text, match.close, Len(config_text)),
                                  1, TRUE)

\* sync_layer_bindings splicing the block over the whole match.
sync_layer_bindings_whole(config_text, layer_name, keys) ==
    LET block == render_bindings(keys)
        match == LayerSearch(config_text, layer_name)
    IN  IF ~block.ok THEN LayerResult("ValueError", config_text, 0, FALSE)
        ELSE IF ~match.found THEN LayerResult("none", config_text, 0, FALSE)
        ELSE LET old_block == SubSeq(config_text, match.body, match.close - 1)
             IN  IF Normalize(old_block) = Normalize(block.text)
                 THEN LayerResult("none", config_text, 1, FALSE)
                 ELSE LayerResult("none",
                                  SubSeq(config_text, 1, match.start - 1)
                                      \o block.text
                                      \o SubSeq(config_text, match.end, Len(config_text)),
                                  1, TRUE)

sync_layer_bindings(config_text, layer_name, keys) ==
    LET block == render_bindings(keys)
        match == LayerSearch(config_text, layer_name)
    IN  IF ~block.ok THEN LayerResult("ValueError", config_text, 0, FALSE)
        ELSE IF ~match.found THEN LayerResult("none", config_text, 0, FALSE)
        ELSE LET old_block == SubSeq(config_text, match.body, match.close - 1)
                 old_norm == Normalize(old_block)
                 new_norm == Normalize(block.text)
                 group1 == SubSeq(config_text, match.start, match.body - 1)
                 group3 == SubSeq(config_text, match.close, match.end - 1)
                 updated == group1 \o block.text \o group3
             IN  IF old_norm = new_norm
                 THEN LayerResult("none", config_text, 1, FALSE)
                 ELSE LayerResult("none",
                                  SubSeq(config_text, 1, match.start - 1)
                                      \o updated
                                      \o SubSeq(config_text, match.end, Len(config_text)),
                                  1, TRUE)

(***************************************************************************)
(* Region Patcher: the fixed verbatim region.                              *)
(***************************************************************************)
BSL == "\\"
AsciiLetters ==
    {"a", "b", "c", "d", "e", "f", "g", "h", "i", "j", "k", "l", "m", "n", "o",
     "p", "q", "r", "s", "t", "u", "v", "w", "x", "y", "z", "A", "B", "C", "D",
     "E", "F", "G", "H", "I", "J", "K", "L", "M", "N", "O", "P", "Q", "R", "S",
     "T", "U", "V", "W", "X", "Y", "Z"}
DecDigits == {"0", "1", "2", "3", "4", "5", "6", "7", "8", "9"}

\* "/* Custom Defined Behaviors */\n/ {\n"
CDB_OPEN ==
    <<"/", "*", " ", "C", "u", "s", "t", "o", "m", " ", "D", "e", "f", "i", "n",
      "e", "d", " ", "B", "e", "h", "a", "v", "i", "o", "r", "s", " ", "*", "/",
      NL, "/", " ", "{", NL>>
\* "/* Generated input processors */"
GEN_MARK ==
    <<"/", "*", " ", "G", "e", "n", "e", "r", "a", "t", "e", "d", " ", "i", "n",
      "p", "u", "t", " ", "p", "r", "o", "c", "e", "s", "s", "o", "r", "s", " ",
      "*", "/">>
\* The pattern's end, "\n/* Generated input processors */".
CDB_CLOSE == <<NL>> \o GEN_MARK
\* "\n\n};\n\n", between the fragment and the closing marker.
CDB_TAIL == <<NL, NL, "}", ";", NL, NL>>

RECURSIVE RStrip(_)
\* s.rstrip()
RStrip(s) ==
    IF s # <<>> /\ s[Len(s)] \in WS THEN RStrip(SubSeq(s, 1, Len(s) - 1)) ELSE s

\* The starts of the pattern's matches: the opening marker with a closing
\* marker somewhere after it (.*? with re.S spans anything).
CdbStarts(s) ==
    {i \in Places(s, "/") :
        /\ MatchAt(CDB_OPEN, s, i)
        /\ \E p \in Places(s, NL) : p >= i + Len(CDB_OPEN) /\ MatchAt(CDB_CLOSE, s, p)}

\* The leftmost match: s[start, end), the closing marker at close.
CdbSearch(s) ==
    IF CdbStarts(s) = {} THEN NoMatch
    ELSE LET i == SetMin(CdbStarts(s))
             c == SetMin({p \in Places(s, NL) :
                             p >= i + Len(CDB_OPEN) /\ MatchAt(CDB_CLOSE, s, p)})
         IN  [found |-> TRUE, start |-> i, body |-> i + Len(CDB_OPEN), close |-> c,
              end |-> c + Len(CDB_CLOSE)]

RECURSIVE CdbCountFrom(_, _)
\* The number of matches of the pattern in s from index `from` on, each match
\* sought after the end of the one before (as findall or an unlimited subn
\* counts them).
CdbCountFrom(s, from) ==
    LET starts == {i \in CdbStarts(s) : i >= from}
    IN  IF starts = {} THEN 0
        ELSE LET i == SetMin(starts)
                 c == SetMin({p \in Places(s, NL) :
                                 p >= i + Len(CDB_OPEN) /\ MatchAt(CDB_CLOSE, s, p)})
             IN  1 + CdbCountFrom(s, c + Len(CDB_CLOSE))

CdbMatchCount(s) == CdbCountFrom(s, 1)

TemplateError == [ok |-> FALSE, text |-> <<>>]

RECURSIVE BackslashesBefore(_, _)
\* The number of backslashes in a row that end just before index i.
BackslashesBefore(tpl, i) ==
    IF i > 1 /\ tpl[i - 1] = BSL THEN 1 + BackslashesBefore(tpl, i - 1) ELSE 0

\* Whether an escape starts at i: a backslash that no earlier one escapes.
EscapeAt(tpl, i) ==
    i >= 1 /\ i <= Len(tpl) /\ tpl[i] = BSL /\ BackslashesBefore(tpl, i) % 2 = 0

\* Whether the escape at i is \g<0>.
WholeAt(tpl, i) == EscapeAt(tpl, i) /\ MatchAt(<<"g", "<", "0", ">">>, tpl, i + 1)

\* The replacement template expanded as re's subn expands it: \n, \t and \\
\* are the characters, \g<0> is the whole match, a digit or any other \g is a
\* reference to a group the pattern does not have and another ASCII letter is
\* a bad escape, as is a backslash at the end (all raise re.error); any other
\* \c stays as it is. Octal escapes (\0, \ooo) are in none of the model's texts.
Expand(tpl, whole) ==
    LET bad(i) ==
            /\ EscapeAt(tpl, i)
            /\ \/ i = Len(tpl)
               \/ /\ ~WholeAt(tpl, i)
                  /\ tpl[i + 1] \notin {"n", "t"}
                  /\ tpl[i + 1] \in AsciiLetters \cup DecDigits
        piece(i) ==
            IF EscapeAt(tpl, i)
            THEN CASE WholeAt(tpl, i) -> whole
                   [] tpl[i + 1] = "n" -> <<NL>>
                   [] tpl[i + 1] = "t" -> <<TAB>>
                   [] tpl[i + 1] = BSL -> <<BSL>>
                   [] OTHER -> <<BSL, tpl[i + 1]>>
            ELSE IF EscapeAt(tpl, i - 1) THEN <<>>
            ELSE IF \E k \in 2..4 : WholeAt(tpl, i - k) THEN <<>>
            ELSE <<tpl[i]>>
    IN  IF \E i \in 1..Len(tpl) : bad(i) THEN TemplateError
        ELSE [ok |-> TRUE, text |-> Concat([i \in 1..Len(tpl) |-> piece(i)])]

CdbResult(err, text, count) == [err |-> err, text |-> text, count |-> count]

\* The replacement string of sync_custom_defined_behaviors.
CdbReplacement(dtsi_text) == CDB_OPEN \o RStrip(dtsi_text) \o CDB_TAIL \o GEN_MARK

\* sync_custom_defined_behaviors reporting the number of matches the pattern has.
sync_custom_defined_behaviors_all(config_text, dtsi_text) ==
    LET match == CdbSearch(config_text)
        whole == SubSeq(config_text, match.start, match.end - 1)
        new == Expand(CdbReplacement(dtsi_text), whole)
    IN  IF ~new.ok THEN CdbResult("re.error", config_text, 0)
        ELSE IF ~match.found THEN CdbResult("none", config_text, 0)
        ELSE CdbResult("none",
                       SubSeq(config_text, 1, match.start - 1) \o new.text
                           \o SubSeq(config_text, match.end, Len(config_text)),
                       CdbMatchCount(config_text))

\* pattern.subn(replacement, config_text, count=1): the new text and the number
\* of replacements made, at most 1. The template is parsed before the search.
sync_custom_defined_behaviors(config_text, dtsi_text) ==
    LET match == CdbSearch(config_text)
        whole == SubSeq(config_text, match.start, match.end - 1)
        new == Expand(CdbReplacement(dtsi_text), whole)
    IN  IF ~new.ok THEN CdbResult("re.error", config_text, 0)
        ELSE IF ~match.found THEN CdbResult("none", config_text, 0)
        ELSE CdbResult("none",
                       SubSeq(config_text, 1, match.start - 1) \o new.text
                           \o SubSeq(config_text, match.end, Len(config_text)),
                       1)

(***************************************************************************)
(* Inputs: key-binding trees and key lists.                                *)
(***************************************************************************)
LS == <<"L", "S">>
RC == <<"R", "C">>
MO == <<"&", "m", "o">>
KeyA == <<"A">>
LEFT == <<"L", "E", "F", "T">>

Modifiers == {LS, RC}
Keycodes == {KeyA, LEFT}

\* Scalars a params list may hold directly.
Leaves == {JNull, JStr(KeyA), JNum(1), JStr(<<>>)}
NodeValues == {JStr(KP), JStr(LS), JStr(RC), JStr(KeyA), JNum(1), JAbsent}

RECURSIVE Nodes(_)
\* The parameter trees of depth <= d.
Nodes(d) ==
    IF d = 0 THEN Leaves \cup {JDict(v, <<>>) : v \in NodeValues}
    ELSE Nodes(d - 1) \cup {JDict(v, <<c>>) : v \in NodeValues, c \in Nodes(d - 1)}

KeyValues == {JStr(KP), JStr(MO), JStr(CUSTOM), JStr(KeyA), JAbsent}

\* The keys of the token resolver's checks.
Keys ==
    {JDict(v, <<>>) : v \in KeyValues}
        \cup {JDict(v, <<c>>) : v \in KeyValues, c \in Nodes(MaxDepth)}
        \cup {JDict(JStr(MO), <<c, JDict(JStr(KeyA), <<>>)>>) : c \in Nodes(0)}

Kp(code) == JDict(JStr(KP), <<JDict(JStr(code), <<>>)>>)
KpMod(mod, code) ==
    JDict(JStr(KP), <<JDict(JStr(mod), <<JDict(JStr(code), <<>>)>>)>>)
\* &kp wrapping LS wrapping &kp wrapping A.
KpLsKpA == JDict(JStr(KP), <<JDict(JStr(LS), <<Kp(KeyA)>>)>>)
Trans == JDict(JStr(<<"&", "t", "r", "a", "n", "s">>), <<>>)
EmptyKey == JDict(JStr(<<>>), <<>>)
Numbered(i) == JDict(JNum(i), <<>>)

\* The keys layers are made of.
LayerKeys == {Kp(KeyA), Kp(LEFT), KpMod(LS, KeyA), Trans, EmptyKey}

\* n keys `base`, the one at position p replaced by `other`.
KeyList(n, base, p, other) == [k \in 1..n |-> IF k = p THEN other ELSE base]
\* n keys whose tokens are the numbers 1..n.
NumberedList(n) == [k \in 1..n |-> Numbered(k)]

NumKeys == SumSeq(ROW_WIDTHS)
Lengths == {0} \cup {n \in (NumKeys - MaxLenDelta)..(NumKeys + MaxLenDelta) : n >= 0}

KeyLists ==
    {NumberedList(n) : n \in Lengths}
        \cup {KeyList(n, b, p, o) : n \in Lengths, b \in {Kp(KeyA), Trans},
                                    p \in {1, 10, 11, 34, 64, 65, 80, 81},
                                    o \in LayerKeys}

(***************************************************************************)
(* Inputs: the three files.                                                *)
(***************************************************************************)
BASE == <<"b", "a", "s", "e">>
NAV == <<"n", "a", "v">>
\* A layer name that is a prefix of another's.
NA == <<"n", "a">>

KeysA == KeyList(NumKeys, Kp(KeyA), 0, Trans)
KeysNav == KeyList(NumKeys, Kp(KeyA), 1, Kp(LEFT))
KeysMod == KeyList(NumKeys, Trans, 64, KpMod(LS, KeyA))
KeysShort == KeyList(NumKeys - 1, Kp(KeyA), 0, Trans)

\* keymap.json: [ok |-> whether it parses and has both fields, ...].
Json(names, layers) == [ok |-> TRUE, layer_names |-> names, layers |-> layers]
BadJson == [ok |-> FALSE, layer_names |-> <<>>, layers |-> <<>>]

JsonDatas ==
    {Json(<<BASE, NAV>>, <<KeysA, KeysNav>>),
     Json(<<NAV, BASE>>, <<KeysNav, KeysA>>),
     Json(<<BASE>>, <<KeysA>>),
     Json(<<BASE, NAV>>, <<KeysShort, KeysNav>>),
     Json(<<BASE, NAV>>, <<KeysA, KeysShort>>),
     Json(<<BASE, NA, NAV>>, <<KeysA, KeysMod, KeysNav>>),
     BadJson}

\* keymap.dtsi: plain, with a `\n` escape in it, and with a `\d` in it.
DtsiPlain ==
    <<"x", " ", "=", " ", "1", ";", NL, "/", "*", "H", "A", "C", "K", "*", "/",
      "/", "{", NL>>
DtsiEscape == <<"s", " ", "=", " ", "'", BSL, "n", "'", ";">>
DtsiBadEscape == <<"r", " ", "=", " ", BSL, "d", ";", NL>>
DtsiTexts == {DtsiPlain, DtsiEscape, DtsiBadEscape}

\* The behaviors region around `content`.
CdbRegion(content) == CDB_OPEN \o content \o CDB_CLOSE \o <<NL>>
\* The region as a sync with keymap.dtsi = dtsi leaves it.
CdbSynced(dtsi) == CdbRegion(RStrip(dtsi) \o <<NL, NL, "}", ";", NL>>)
CdbOld == CdbRegion(<<"o", "l", "d", ";", NL, NL, "}", ";", NL>>)

BlockOpen(name) ==
    LAYER_ \o name \o <<" ", "{", NL>>
        \o <<" ", " ", " ", " ", "b", "i", "n", "d", "i", "n", "g", "s", " ", "=",
             " ", "<", NL>>
BlockClose == <<NL, " ", " ", " ", " ", ">", ";", NL, "}", ";", NL>>
LayerBlock(name, body) == BlockOpen(name) \o body \o BlockClose
\* A block cut off before its closing sequence.
OpenBlock(name, body) == BlockOpen(name) \o body \o <<NL>>

\* The block of `keys` as the renderer lays it out, and one token per line.
Rendered(keys) == render_bindings(keys).text
Rewrapped(keys) == JoinWith(<<NL, " ", " ">>, Split(Rendered(keys)))
Stale == <<" ", " ", "&", "k", "p", " ", "Z">>

HEADER == <<"#", "i", "n", "c", "l", "u", "d", "e", " ", "<", "x", ".", "h", ">", NL>>

DocSynced ==
    HEADER \o CdbSynced(DtsiPlain) \o LayerBlock(BASE, Rendered(KeysA))
        \o LayerBlock(NAV, Rendered(KeysNav))
DocNavStale ==
    HEADER \o CdbOld \o LayerBlock(BASE, Rewrapped(KeysA))
        \o LayerBlock(NAV, Rendered(KeysA))
DocNoCdb == HEADER \o LayerBlock(BASE, Stale) \o LayerBlock(NAV, Stale)
DocTwoCdb ==
    CdbOld \o CdbRegion(<<"t", "w", "o", ";">>) \o LayerBlock(BASE, Rendered(KeysA))
        \o LayerBlock(NAV, Stale)
DocNoNav == HEADER \o CdbOld \o LayerBlock(BASE, Stale)
DocOpenBase ==
    CdbOld \o OpenBlock(BASE, Stale) \o LayerBlock(NAV, Stale)
DocThree ==
    CdbOld \o LayerBlock(NAV, Stale) \o LayerBlock(NA, Rewrapped(KeysMod))
        \o LayerBlock(BASE, Stale)
DocTwoNav ==
    CdbSynced(DtsiPlain) \o OpenBlock(BASE, Stale) \o LayerBlock(NAV, Stale)
        \o LayerBlock(NAV, Rendered(KeysNav))

Docs ==
    {DocSynced, DocNavStale, DocNoCdb, DocTwoCdb, DocNoNav, DocOpenBase, DocThree,
     DocTwoNav}

\* Blocks written tightly and with tabs, and an open block before two others.
DocTight ==
    LAYER_ \o NAV \o <<"{", "b", "i", "n", "d", "i", "n", "g", "s", "=", "<", NL>>
        \o Rewrapped(KeysNav) \o <<NL, ">", ";", NL, "}", ";">>
        \o LAYER_ \o BASE \o <<TAB, "{", NL, TAB, "b", "i", "n", "d", "i", "n", "g",
                                "s", TAB, "=", NL, "<", NL>>
        \o Stale \o <<NL, NL, TAB, ">", ";", NL, NL, "}", ";", NL>>
DocOpenFirst ==
    OpenBlock(BASE, Stale) \o LayerBlock(NAV, Stale) \o LayerBlock(NAV, Stale)
        \o LayerBlock(NA, Stale)

LayerDocs == Docs \cup {DocTight, DocOpenFirst}

(***************************************************************************)
(* The token resolver on its own: one key in, one token out.               *)
(***************************************************************************)
NoOut == [kind |-> "none"]
NoInp == [kind |-> "none"]
\* The variables of main while a function is checked on its own.
Idle == [kind |-> "none"]
main_vars == <<args, fs, mem, hist>>
InitIdle == args = Idle /\ fs = Idle /\ mem = Idle /\ hist = Idle

InitToken ==
    /\ pc = "token"
    /\ inp \in {[key |-> k] : k \in Keys}
    /\ out = NoOut
    /\ InitIdle

KeyToToken ==
    /\ pc = "token"
    /\ out' = [kind |-> "token", token |-> key_to_token(inp.key)]
    /\ pc' = "done"
    /\ UNCHANGED <<inp, main_vars>>

NextToken == KeyToToken

SpecToken == InitToken /\ [][NextToken]_vars

(***************************************************************************)
(* The layer renderer on its own: one key list in, one block or error out. *)
(***************************************************************************)
InitRender ==
    /\ pc = "render"
    /\ inp \in {[keys |-> ks] : ks \in KeyLists}
    /\ out = NoOut
    /\ InitIdle

RenderBindings ==
    /\ pc = "render"
    /\ out' = [kind |-> "render", res |-> render_bindings(inp.keys)]
    /\ pc' = "done"
    /\ UNCHANGED <<inp, main_vars>>

NextRender == RenderBindings

SpecRender == InitRender /\ [][NextRender]_vars

(***************************************************************************)
(* The per-layer patch on its own: applied to a document, then to the      *)
(* document it returned.                                                   *)
(***************************************************************************)
LayerNames == {BASE, NAV, NA}
LayerKeyLists == {KeysA, KeysNav, KeysMod, KeysShort}

InitLayer ==
    /\ pc = "sync"
    /\ inp \in [doc : LayerDocs, name : LayerNames, keys : LayerKeyLists]
    /\ out = NoOut
    /\ InitIdle

SyncOnce ==
    /\ pc = "sync"
    /\ out' = [kind |-> "once",
               first |-> sync_layer_bindings(inp.doc, inp.name, inp.keys)]
    /\ pc' = "again"
    /\ UNCHANGED <<inp, main_vars>>

\* The same call on the document the first one returned.
SyncAgain ==
    /\ pc = "again"
    /\ out.first.err = "none"
    /\ out' = [kind |-> "twice",
               first |-> out.first,
               second |-> sync_layer_bindings(out.first.text, inp.name, inp.keys)]
    /\ pc' = "done"
    /\ UNCHANGED <<inp, main_vars>>

NextLayer == SyncOnce \/ SyncAgain

SpecLayer == InitLayer /\ [][NextLayer]_vars

(***************************************************************************)
(* The per-layer patches of one layer set applied to one document in two   *)
(* orders, side by side.                                                   *)
(***************************************************************************)
Layer(name, keys) == [name |-> name, keys |-> keys]

LayerSets ==
    {<<Layer(BASE, KeysA), Layer(NAV, KeysNav)>>,
     <<Layer(BASE, KeysMod), Layer(NAV, KeysA)>>,
     <<Layer(BASE, KeysA), Layer(NA, KeysMod), Layer(NAV, KeysNav)>>}

\* The orders of n layers; Identity is the order of the layer set itself.
Perms(n) == {p \in [1..n -> 1..n] : \A i, j \in 1..n : p[i] = p[j] => i = j}
Identity(n) == [i \in 1..n |-> i]

NewRun(doc) == [text |-> doc, k |-> 0, changed |-> {}, found |-> TRUE]

InitOrder ==
    /\ pc = "order"
    /\ \E ls \in LayerSets, d \in LayerDocs :
          \E q \in Perms(Len(ls)) \ {Identity(Len(ls))} :
             /\ inp = [doc |-> d, layers |-> ls, orders |-> <<Identity(Len(ls)), q>>]
             /\ out = [kind |-> "order", runs |-> <<NewRun(d), NewRun(d)>>]
    /\ InitIdle

\* Run j applies the patch of the next layer of its order to its document.
ApplyNext(j) ==
    /\ pc = "order"
    /\ out.runs[j].k < Len(inp.layers)
    /\ LET run == out.runs[j]
           layer == inp.layers[inp.orders[j][run.k + 1]]
           res == sync_layer_bindings(run.text, layer.name, layer.keys)
       IN  out' = [out EXCEPT
                      !.runs[j] = [text |-> res.text,
                                   k |-> run.k + 1,
                                   changed |-> IF res.changed
                                               THEN run.changed \cup {layer.name}
                                               ELSE run.changed,
                                   found |-> run.found /\ res.count = 1]]
    /\ UNCHANGED <<pc, inp, main_vars>>

NextOrder == \E j \in 1..2 : ApplyNext(j)

SpecOrder == InitOrder /\ [][NextOrder]_vars

(***************************************************************************)
(* Sync Orchestrator: main, one action per step of a run.                  *)
(***************************************************************************)
\* The commands regenerate_dtsi tries in turn.
Candidates == <<"/opt/homebrew/opt/ruby/bin/rake", "rake">>

RECURSIVE DictSet(_, _, _)
\* d[name] = keys on a dict kept as a sequence of entries in insertion order.
DictSet(d, name, keys) ==
    IF d = <<>> THEN <<[name |-> name, keys |-> keys]>>
    ELSE IF Head(d).name = name THEN <<[name |-> name, keys |-> keys]>> \o Tail(d)
    ELSE <<Head(d)>> \o DictSet(Tail(d), name, keys)

RECURSIVE DictZip(_, _)
\* dict(zip(layer_names, layers))
DictZip(names, layers) ==
    IF names = <<>> \/ layers = <<>> THEN <<>>
    ELSE DictSet(DictZip(SubSeq(names, 1, Len(names) - 1),
                         SubSeq(layers, 1, Len(layers) - 1)),
                 names[Len(names)], layers[Len(layers)])

NoText == <<>>
Locals ==
    [cand |-> 1, layer_map |-> <<>>, config_text |-> NoText, dtsi_text |-> NoText,
     updated_text |-> NoText, i |-> 1, changed_layers |-> <<>>, changed |-> FALSE,
     message |-> "", exit |-> -1]

InitMain ==
    /\ pc = "rake"
    /\ inp = NoInp
    /\ out = NoOut
    /\ args \in [write : BOOLEAN, skip_rake : BOOLEAN]
    /\ fs \in [json : JsonDatas, keymap : Docs, dtsi : DtsiTexts]
    /\ mem = Locals
    /\ hist = [keymap0 |-> fs.keymap, patches |-> <<>>, writes |-> <<>>]

\* The except clause under __main__: the message goes to stderr, exit status 1.
Abort(message) ==
    /\ pc' = "failed"
    /\ mem' = [mem EXCEPT !.message = message, !.exit = 1]

\* --skip-rake: regenerate_dtsi is not called.
SkipRake ==
    /\ pc = "rake"
    /\ args.skip_rake
    /\ pc' = "load"
    /\ UNCHANGED <<inp, out, args, fs, mem, hist>>

\* The candidate is not on the system: the next one is tried, and after the
\* last one regenerate_dtsi raises.
RakeNotFound ==
    /\ pc = "rake"
    /\ ~args.skip_rake
    /\ IF mem.cand < Len(Candidates)
       THEN /\ mem' = [mem EXCEPT !.cand = @ + 1]
            /\ pc' = pc
       ELSE Abort("Unable to find rake executable to regenerate keymap.dtsi.")
    /\ UNCHANGED <<inp, out, args, fs, hist>>

\* The candidate runs and exits non-zero.
RakeFails ==
    /\ pc = "rake"
    /\ ~args.skip_rake
    /\ Abort("rake failed")
    /\ UNCHANGED <<inp, out, args, fs, hist>>

\* The candidate runs and writes keymap.dtsi anew.
RakeSucceeds ==
    /\ pc = "rake"
    /\ ~args.skip_rake
    /\ \E text \in DtsiTexts : fs' = [fs EXCEPT !.dtsi = text]
    /\ pc' = "load"
    /\ UNCHANGED <<inp, out, args, mem, hist>>

\* Lines 144-150: the three files are read.
Load ==
    /\ pc = "load"
    /\ IF ~fs.json.ok
       THEN Abort("keymap.json does not parse")
       ELSE /\ mem' = [mem EXCEPT
                          !.layer_map = DictZip(fs.json.layer_names, fs.json.layers),
                          !.config_text = fs.keymap,
                          !.dtsi_text = fs.dtsi]
            /\ pc' = "cdb"
    /\ UNCHANGED <<inp, out, args, fs, hist>>

Patch(op, name, src, res) ==
    [op |-> op, name |-> name, src |-> src, dst |-> res.text, count |-> res.count,
     err |-> res.err]

\* Lines 152-156.
SyncCdb ==
    /\ pc = "cdb"
    /\ LET res == sync_custom_defined_behaviors(mem.config_text, mem.dtsi_text)
       IN  /\ hist' = [hist EXCEPT
                          !.patches = Append(@, Patch("cdb", <<>>, mem.config_text, res))]
           /\ IF res.err # "none" THEN Abort(res.err)
              ELSE IF res.count # 1
              THEN Abort("Could not find Custom Defined Behaviors section")
              ELSE /\ mem' = [mem EXCEPT !.updated_text = res.text]
                   /\ pc' = "layers"
    /\ UNCHANGED <<inp, out, args, fs>>

\* The loop's iteration writing the target file as it goes.
SyncLayerEager ==
    /\ pc = "layers"
    /\ mem.i <= Len(mem.layer_map)
    /\ LET layer_name == mem.layer_map[mem.i].name
           keys == mem.layer_map[mem.i].keys
           res == sync_layer_bindings(mem.updated_text, layer_name, keys)
       IN  /\ IF res.err # "none"
              THEN /\ Abort(res.err)
                   /\ hist' = [hist EXCEPT
                                  !.patches = Append(@, Patch("layer", layer_name,
                                                              mem.updated_text, res))]
                   /\ UNCHANGED fs
              ELSE IF res.count # 1
              THEN /\ Abort("Could not find layer block")
                   /\ hist' = [hist EXCEPT
                                  !.patches = Append(@, Patch("layer", layer_name,
                                                              mem.updated_text, res))]
                   /\ UNCHANGED fs
              ELSE /\ mem' = [mem EXCEPT
                                 !.updated_text = res.text,
                                 !.changed_layers =
                                     IF res.changed THEN Append(@, layer_name) ELSE @,
                                 !.i = @ + 1]
                   /\ pc' = pc
                   /\ fs' = IF args.write THEN [fs EXCEPT !.keymap = res.text] ELSE fs
                   /\ hist' = [hist EXCEPT
                                  !.patches = Append(@, Patch("layer", layer_name,
                                                              mem.updated_text, res)),
                                  !.writes = IF args.write THEN Append(@, res.text)
                                             ELSE @]
    /\ UNCHANGED <<inp, out, args>>

\* The loop's iteration going on to the next layer when a block is not found.
SyncLayerSkip ==
    /\ pc = "layers"
    /\ mem.i <= Len(mem.layer_map)
    /\ LET layer_name == mem.layer_map[mem.i].name
           keys == mem.layer_map[mem.i].keys
           res == sync_layer_bindings(mem.updated_text, layer_name, keys)
       IN  /\ hist' = [hist EXCEPT
                          !.patches = Append(@, Patch("layer", layer_name,
                                                      mem.updated_text, res))]
           /\ IF res.err # "none" THEN Abort(res.err)
              ELSE /\ mem' = [mem EXCEPT
                                 !.updated_text = res.text,
                                 !.changed_layers =
                                     IF res.changed THEN Append(@, layer_name) ELSE @,
                                 !.i = @ + 1]
                   /\ pc' = pc
    /\ UNCHANGED <<inp, out, args, fs>>

\* One iteration of the loop of lines 157-162.
SyncLayer ==
    /\ pc = "layers"
    /\ mem.i <= Len(mem.layer_map)
    /\ LET layer_name == mem.layer_map[mem.i].name
           keys == mem.layer_map[mem.i].keys
           res == sync_layer_bindings(mem.updated_text, layer_name, keys)
       IN  /\ hist' = [hist EXCEPT
                          !.patches = Append(@, Patch("layer", layer_name,
                                                      mem.updated_text, res))]
           /\ IF res.err # "none" THEN Abort(res.err)
              ELSE IF res.count # 1 THEN Abort("Could not find layer block")
              ELSE /\ mem' = [mem EXCEPT
                                 !.updated_text = res.text,
                                 !.changed_layers =
                                     IF res.changed THEN Append(@, layer_name) ELSE @,
                                 !.i = @ + 1]
                   /\ pc' = pc
    /\ UNCHANGED <<inp, out, args, fs>>

\* Lines 164-174, after the loop.
Finish ==
    /\ pc = "layers"
    /\ mem.i > Len(mem.layer_map)
    /\ LET changed == mem.updated_text # mem.config_text
       IN  /\ IF args.write
              THEN /\ fs' = [fs EXCEPT !.keymap = mem.updated_text]
                   /\ hist' = [hist EXCEPT !.writes = Append(@, mem.updated_text)]
                   /\ mem' = [mem EXCEPT
                                 !.changed = changed,
                                 !.message = IF changed THEN "Updated"
                                             ELSE "already in sync",
                                 !.exit = 0]
              ELSE /\ mem' = [mem EXCEPT
                                 !.changed = changed,
                                 !.message = IF changed THEN "Would update"
                                             ELSE "already in sync",
                                 !.exit = 0]
                   /\ UNCHANGED <<fs, hist>>
    /\ pc' = "done"
    /\ UNCHANGED <<inp, out, args>>

Next ==
    \/ SkipRake
    \/ RakeNotFound
    \/ RakeFails
    \/ RakeSucceeds
    \/ Load
    \/ SyncCdb
    \/ SyncLayer
    \/ Finish

Spec == InitMain /\ [][Next]_vars

(***************************************************************************)
(* Properties of the token resolver (SpecToken).                           *)
(***************************************************************************)
IsKeycode(node) ==
    \/ node.t = "str" /\ node.s \in Keycodes
    \/ node.t = "num"
    \/ node.t = "dict" /\ node.params = <<>>
          /\ (node.value.t = "num" \/ (node.value.t = "str" /\ node.value.s \in Keycodes))

RECURSIVE IsWrapped(_)
\* A keycode, or a modifier or "&kp" node around nothing or around such a tree.
IsWrapped(node) ==
    \/ IsKeycode(node)
    \/ /\ node.t = "dict"
       /\ node.value.t = "str"
       /\ node.value.s \in Modifiers \cup {KP}
       /\ node.params = <<>> \/ IsWrapped(node.params[1])

\* An outer "&kp" whose first parameter is a modifier node over such a tree.
IsKpOverModifier(key) ==
    /\ key.value = JStr(KP)
    /\ key.params # <<>>
    /\ key.params[1].t = "dict"
    /\ key.params[1].value.t = "str"
    /\ key.params[1].value.s \in Modifiers
    /\ IsWrapped(key.params[1])

\* C8: for an outer "&kp" over a (possibly nested) modifier node that may wrap
\* an inner "&kp" node, the token holds "&kp" exactly once, at its start.
C8_KpOnce ==
    (out.kind = "token" /\ IsKpOverModifier(inp.key)) =>
        /\ CountOcc(KP, out.token) = 1
        /\ MatchAt(KP, out.token, 1)

\* &kp wrapping LS wrapping &kp wrapping A has become "&kp LS(A)".
C8_Witness ==
    /\ out.kind = "token"
    /\ inp.key = KpLsKpA
    /\ IsKpOverModifier(inp.key)
    /\ out.token = <<"&", "k", "p", " ", "L", "S", "(", "A", ")">>

(***************************************************************************)
(* Properties of the layer renderer (SpecRender).                          *)
(***************************************************************************)
\* The 1-based positions of the keys that start a row: 1, 11, 23, 35, 47, 65.
RowStarts == {1 + SumSeq(SubSeq(ROW_WIDTHS, 1, r)) : r \in 0..(Len(ROW_WIDTHS) - 1)}

\* What stands before the token of key k in the block.
Before(k) ==
    IF k = 1 THEN INDENT
    ELSE IF k \in RowStarts THEN <<NL>> \o INDENT
    ELSE <<" ">>

\* The block laid out key by key: every token once, in order.
ExpectedBlock(keys) ==
    Concat([k \in 1..Len(keys) |-> Before(k) \o key_to_token(keys[k])])

\* C7: a key list whose length is not 80 gives a ShapeError and no text; an
\* 80-key list gives six rows joined by newlines, row r with the tokens of the
\* next ROW_WIDTHS[r] keys in order, one space between tokens, 12 spaces
\* before each row, no newline at the end.
C7_Render ==
    out.kind = "render" =>
        IF Len(inp.keys) # 80
        THEN ~out.res.ok /\ out.res.text = <<>>
        ELSE /\ out.res.ok
             /\ out.res.text = ExpectedBlock(inp.keys)
             /\ Cardinality(RowStarts) = 6
             /\ out.res.text[Len(out.res.text)] # NL

\* 80 keys with 80 different tokens have been rendered.
C7_Witness ==
    /\ out.kind = "render"
    /\ inp.keys = NumberedList(80)
    /\ out.res.ok
    /\ CountOcc(<<NL>>, out.res.text) = 5

(***************************************************************************)
(* Properties of the per-layer patch (SpecLayer).                          *)
(***************************************************************************)
\* The region of a layer in a document, from the matcher's parts: the leftmost
\* opening sequence with a closing sequence after it, to the first of these.
Span(s, layer_name) ==
    LET starts == {i \in Places(s, "l") :
                      /\ OpenEnd(s, layer_name, i) # 0
                      /\ FirstClose(s, OpenEnd(s, layer_name, i)) # 0}
    IN  IF starts = {} THEN NoMatch
        ELSE LET i == SetMin(starts)
                 c == FirstClose(s, OpenEnd(s, layer_name, i))
             IN  [found |-> TRUE, start |-> i, body |-> OpenEnd(s, layer_name, i),
                  close |-> c, end |-> CloseEnd(s, c)]

OldBody(s, layer_name) ==
    SubSeq(s, Span(s, layer_name).body, Span(s, layer_name).close - 1)

FirstCall == IF out.kind \in {"once", "twice"} THEN out.first ELSE [err |-> "unset"]

\* C3: a 'changed' result is the input with the body span of the match
\* replaced by the rendered block; all before the body and all after it is
\* the input's, character for character.
C3_Frame ==
    (FirstCall.err = "none" /\ FirstCall.changed) =>
        LET m == Span(inp.doc, inp.name)
            block == render_bindings(inp.keys).text
            new == FirstCall.text
        IN  /\ FirstCall.count = 1
            /\ m.found
            /\ Len(new) = Len(inp.doc) - (m.close - m.body) + Len(block)
            /\ SubSeq(new, 1, m.body - 1) = SubSeq(inp.doc, 1, m.body - 1)
            /\ SubSeq(new, m.body, m.body + Len(block) - 1) = block
            /\ SubSeq(new, m.body + Len(block), Len(new))
                   = SubSeq(inp.doc, m.close, Len(inp.doc))

\* The nav block of a document with other blocks and a behaviors region has
\* been replaced.
C3_Witness ==
    /\ FirstCall.err = "none"
    /\ FirstCall.changed
    /\ inp.doc = DocNavStale
    /\ inp.name = NAV

\* C4: where the first call finds the region, the same call on the document
\* it returned reports (found, unchanged) and returns that document.
C4_Idempotent ==
    (out.kind = "twice" /\ out.first.count = 1) =>
        /\ out.second.err = "none"
        /\ out.second.count = 1
        /\ ~out.second.changed
        /\ out.second.text = out.first.text

\* The first call changed the document and the second call has been made.
C4_Witness ==
    /\ out.kind = "twice"
    /\ out.first.count = 1
    /\ out.first.changed
    /\ out.first.text # inp.doc

\* C5: where the region is found, 'changed' is reported exactly when the old
\* body and the rendered block differ as sequences of whitespace-separated
\* tokens; otherwise the input comes back as it was, with found = 1.
C5_ChangedIffTokensDiffer ==
    (FirstCall.err = "none" /\ Span(inp.doc, inp.name).found) =>
        /\ FirstCall.count = 1
        /\ FirstCall.changed
               <=> Split(OldBody(inp.doc, inp.name)) # Split(render_bindings(inp.keys).text)
        /\ ~FirstCall.changed => FirstCall.text = inp.doc

\* A body that differs from the rendered block in whitespace only was left.
C5_Witness ==
    /\ FirstCall.err = "none"
    /\ FirstCall.count = 1
    /\ ~FirstCall.changed
    /\ OldBody(inp.doc, inp.name) # render_bindings(inp.keys).text

(***************************************************************************)
(* Properties of the order of the per-layer patches (SpecOrder).           *)
(***************************************************************************)
BothDone ==
    /\ out.kind = "order"
    /\ \A j \in 1..2 : out.runs[j].k = Len(inp.layers)

\* Every layer's region is found in the document, and in each run as well.
RegionsFound ==
    /\ \A i \in 1..Len(inp.layers) : Span(inp.doc, inp.layers[i].name).found
    /\ \A j \in 1..2 : out.runs[j].found

\* The regions of different layers do not overlap in the document.
RegionsDisjoint ==
    \A i, j \in 1..Len(inp.layers) :
        i # j => \/ Span(inp.doc, inp.layers[i].name).end
                        <= Span(inp.doc, inp.layers[j].name).start
                 \/ Span(inp.doc, inp.layers[j].name).end
                        <= Span(inp.doc, inp.layers[i].name).start

SameResult ==
    /\ out.runs[1].text = out.runs[2].text
    /\ out.runs[1].changed = out.runs[2].changed

\* C10 as stated: with unique names and all regions found, two orders give the
\* same final document and the same set of changed layers.
C10_AnyDocument == (BothDone /\ RegionsFound) => SameResult

\* C10, amended: the same, where the regions found do not overlap.
C10_DisjointRegions == (BothDone /\ RegionsFound /\ RegionsDisjoint) => SameResult

\* Three layers with disjoint regions patched in two orders, some changed.
C10_Witness ==
    /\ BothDone
    /\ RegionsFound
    /\ RegionsDisjoint
    /\ Len(inp.layers) = 3
    /\ out.runs[1].changed # {}

(***************************************************************************)
(* Properties of a run of main (Spec).                                     *)
(***************************************************************************)
\* C1 as stated: the target file is written at most once, at the end, and
\* only in write mode and only if the patches changed the document.
C1_WriteOnlyIfChanged ==
    /\ Len(hist.writes) <= 1
    /\ hist.writes # <<>> =>
           /\ pc = "done"
           /\ args.write
           /\ mem.updated_text # mem.config_text

RakeErrors ==
    {"Unable to find rake executable to regenerate keymap.dtsi.", "rake failed"}

FailedPatch(k) == hist.patches[k].err # "none" \/ hist.patches[k].count # 1

\* C2: a failing step (no rake, rake exiting non-zero, no behaviors region, a
\* layer block not found, a layer without 80 keys) ends the run with exit
\* status 1 and the target file as it was, never written; a failing build
\* ends it before any patch call.
C2_FailureWritesNothing ==
    /\ (\E k \in 1..Len(hist.patches) : FailedPatch(k)) => pc = "failed"
    /\ (\E k \in 1..Len(hist.patches) :
           hist.patches[k].op = "layer" /\ Len(mem.layer_map[k - 1].keys) # 80)
         => pc = "failed"
    /\ pc = "failed" =>
           /\ mem.exit = 1
           /\ hist.writes = <<>>
           /\ fs.keymap = hist.keymap0
    /\ (pc = "failed" /\ mem.message \in RakeErrors) =>
           /\ hist.patches = <<>>
           /\ mem.config_text = NoText
    /\ pc = "done" => mem.exit = 0

\* A write-mode run failed at a layer after patches had changed the document.
C2_Witness ==
    /\ pc = "failed"
    /\ args.write
    /\ Len(hist.patches) >= 3
    /\ mem.updated_text # mem.config_text
    /\ hist.writes = <<>>

C9_PatchOrder ==
    LET P == hist.patches
        names == fs.json.layer_names
    IN  /\ pc \in {"rake", "load", "cdb"} => P = <<>>
        /\ pc \in {"layers", "done"} => P # <<>>
        /\ P # <<>> => P[1].op = "cdb" /\ P[1].src = hist.keymap0
        /\ \A k \in 2..Len(P) :
              /\ P[k].op = "layer"
              /\ k - 1 <= Len(names)
              /\ P[k].name = names[k - 1]
              /\ P[k].src = P[k - 1].dst
        /\ pc = "layers" => Len(P) = mem.i
        /\ pc = "done" => Len(P) = 1 + Len(names)
        /\ \A k \in 1..Len(P) : FailedPatch(k) => k = Len(P) /\ pc = "failed"

\* A run over three layers has finished: four patch calls.
C9_Witness ==
    /\ pc = "done"
    /\ Len(fs.json.layer_names) = 3
    /\ Len(hist.patches) = 4

=============================================================================
